---- MODULE Spec2Model ----
(***************************************************************************)
(* Model of src/src/sharp.cc: the asynchronous resize pipeline of the      *)
(* node add-on.  Resize() runs on the event-loop thread and queues one     *)
(* unit of work per call; ResizeAsync() runs on a thread-pool thread, one  *)
(* per request, concurrently with the other requests; ResizeAsyncAfter()   *)
(* runs back on the event-loop thread and calls the JavaScript callback.   *)
(*                                                                         *)
(* The vips calls are modelled at their call sites.  What the source       *)
(* fixes is modelled as the source has it (arguments, order, what is done  *)
(* with the results).  What only the library fixes is modelled as the      *)
(* libvips 7.x the file is written against behaves:                        *)
(*   - a vips call that fails appends its diagnostic to the one            *)
(*     process-wide error buffer read by vips_error_buffer();              *)
(*   - a loader that fails does not write its output pointer; the model    *)
(*     also allows a library whose loaders store NULL there;               *)
(*   - im_shrink yields floor(size / shrink) and fails on a size of 0;     *)
(*   - im_affinei_all yields the bounding box rounded to nearest;          *)
(*   - im_extract_area / im_embed yield width x height and reject          *)
(*     non-positive sizes; im_conv keeps the size.                         *)
(* Doubles are modelled as exact fractions; where the rounding of a        *)
(* product to nearest is an exact tie, both neighbours are allowed.        *)
(***************************************************************************)
EXTENDS Integers, Sequences, FiniteSets, TLC

\* ------------------------------------------------------------- bounds
MaxTasks == 2
MaxSrc == 11
MaxTarget == 3
MaxNeg == 1

TaskIds == 1..MaxTasks

\* ------------------------------------------------------------ strings
\* std::string values are sequences of one-character strings.
DotJpg == <<".", "j", "p", "g">>
DotJpeg == <<".", "j", "p", "e", "g">>
DotPng == <<".", "p", "n", "g">>
SentinelJpeg == <<"_", "_", "j", "p", "e", "g">>
SentinelPng == <<"_", "_", "p", "n", "g">>
DotGif == <<".", "g", "i", "f">>
DotBmp == <<".", "b", "m", "p">>

UnsupportedInput == "Unsupported input file type"
UnsupportedOutput == "Unsupported output file type"

EndsWith(str, end) ==
    /\ Len(str) >= Len(end)
    /\ SubSeq(str, Len(str) - Len(end) + 1, Len(str)) = end

\* Line 52, line 148.
IsJpegName(s) == EndsWith(s, DotJpg) \/ EndsWith(s, DotJpeg)

IsPngNameElse(s) == ~IsJpegName(s)

\* Line 54, line 154.
IsPngName(s) == EndsWith(s, DotPng)

\* ----------------------------------------------------------- integers
Max(a, b) == IF a >= b THEN a ELSE b
Min(a, b) == IF a <= b THEN a ELSE b

\* C++ int division truncates toward zero; \div rounds down.
CDiv(a, b) == IF a >= 0 THEN a \div b ELSE -((-a) \div b)

\* ------------------------------------------------------ geometry plan
\* xfactor = Xsize / max(cols, 1) as the fraction <<numerator, denominator>>.
AxisFactor(size, target) == <<size, Max(target, 1)>>

FracLess(a, b) == a[1] * b[2] < b[1] * a[2]
FracMin(a, b) == IF FracLess(b, a) THEN b ELSE a
FracMax(a, b) == IF FracLess(a, b) THEN b ELSE a

ChooseFactorAlwaysMin(crop, xf, yf) == FracMin(xf, yf)

\* factor = crop ? min(xfactor, yfactor) : max(xfactor, yfactor)
ChooseFactor(crop, xf, yf) == IF crop THEN FracMin(xf, yf) ELSE FracMax(xf, yf)

ClampFactorNone(f) == f

\* factor = max(factor, 1.0)
ClampFactor(f) == IF f[1] < f[2] THEN <<1, 1>> ELSE f

\* int shrink = floor(factor)
FloorFrac(f) == f[1] \div f[2]

\* The plan of lines 77-82: factor and residual as fractions.
Plan(xsize, ysize, cols, rows, crop) ==
    LET f == ClampFactor(ChooseFactor(crop, AxisFactor(xsize, cols),
                                      AxisFactor(ysize, rows)))
        s == FloorFrac(f)
    IN  [factor |-> f, shrink |-> s, residual |-> <<s * f[2], f[1]>>]

NoPlan == [factor |-> <<0, 1>>, shrink |-> 0, residual |-> <<0, 1>>]

\* im_shrink: the output size is size / shrink, rounded down; a factor
\* below 1 is refused like an empty output.
ShrinkSize(size, shrink) == IF shrink < 1 THEN 0 ELSE size \div shrink

\* im_affinei_all with scale residual and no offset: the size of the
\* bounding box size * residual rounded to nearest; at an exact tie the
\* double product may land on either side.
AffineSizes(size, r) ==
    LET twice == 2 * size * r[1]
        q == (twice + r[2]) \div (2 * r[2])
    IN  IF (twice + r[2]) % (2 * r[2]) = 0 THEN {q - 1, q} ELSE {q}

NoArea == [op |-> "none", left |-> 0, top |-> 0, width |-> 0, height |-> 0]

\* Lines 100-104: the rectangle handed to im_extract_area.
CropArea(xsize, ysize, cols, rows) ==
    LET width == Min(xsize, cols)
        height == Min(ysize, rows)
    IN  [op |-> "extract", left |-> CDiv(xsize - width + 1, 2),
         top |-> CDiv(ysize - height + 1, 2), width |-> width, height |-> height]

\* Lines 111-113: the placement handed to im_embed.
EmbedArea(xsize, ysize, cols, rows) ==
    [op |-> "embed", left |-> CDiv(cols - xsize, 2), top |-> CDiv(rows - ysize, 2),
     width |-> cols, height |-> rows]

\* im_extract_area and im_embed reject an empty or out-of-image area.
AreaAccepted(a, xsize, ysize, embed) ==
    /\ a.width > 0
    /\ a.height > 0
    /\ a.op = "extract" =>
          /\ a.left >= 0 /\ a.top >= 0
          /\ a.left + a.width <= xsize /\ a.top + a.height <= ysize
    /\ a.op = "embed" => embed \in 0..4

\* ------------------------------------------------------------- state
VARIABLES
    args,    \* per call: the arguments of resize() and the file behind src
    pc,      \* per call: where its task is
    baton,   \* per call: the ResizeBaton
    loc,     \* per call: ResizeAsync's locals, and what it has done so far
    live,    \* per call: the vips objects and buffers allocated and not released
    errbuf,  \* the process-wide vips error buffer
    cb,      \* per call: the calls of its callback, and the last arguments
    nulls    \* the library linked: whether a failed loader stores NULL in *out

vars == <<args, pc, baton, loc, live, errbuf, cb, nulls>>

\* The calls that are made: a task id with no arguments stands for no call.
NoArgs ==
    [src |-> <<>>, dst |-> <<>>, cols |-> 0, rows |-> 0, canvas |-> "",
     file |-> [w |-> 0, h |-> 0, fault |-> "none"]]

Called(t) == args[t] # NoArgs

NoBaton ==
    [src |-> <<>>, dst |-> <<>>, cols |-> 0, rows |-> 0, crop |-> FALSE,
     embed |-> 0, err |-> <<>>, buffer_out_len |-> 0]

NoLoc ==
    [in |-> "unset", valid |-> FALSE, freer |-> FALSE, X |-> 0, Y |-> 0,
     plan |-> NoPlan, shr |-> <<0, 0>>, res |-> <<0, 0>>, area |-> NoArea,
     out |-> <<0, 0>>, ran |-> <<>>, failed |-> <<>>, wrote |-> FALSE]

NoCall == [calls |-> 0, err |-> <<>>, buf |-> 0]

\* A diagnostic of the library, tagged with the task whose call failed.
Diag(t, stage) == [by |-> t, msg |-> stage]

\* The canvas argument as Resize() decodes it (lines 195-204); with any
\* other string crop and embed keep whatever the new ResizeBaton held.
CanvasChoices(canvas) ==
    CASE canvas = "c" -> {[crop |-> TRUE, embed |-> 0]}
      [] canvas = "w" -> {[crop |-> FALSE, embed |-> 4]}
      [] canvas = "b" -> {[crop |-> FALSE, embed |-> 0]}
      [] OTHER -> {[crop |-> c, embed |-> e] : c \in BOOLEAN, e \in {0, 4, 9}}

\* ~ImageFreer at a return after line 66: in and its local images go.
Released(t) ==
    IF loc[t].freer THEN live[t] \ {loc[t].in, "temps"} ELSE live[t]

\* The file behind src: its pixel size and the first vips call that fails on
\* it, if any ("load": the file does not decode).  An image whose load
\* failed unnoticed has no pixel source: the first call that asks for its
\* pixels, im_shrink, fails.
Faulty(t, stage) == args[t].file.fault = stage
Passes(t, stage) == args[t].file.fault # stage
Doomed(t) == ~loc[t].valid

\* ----------------------------------------------------------- actions
\* Resize (lines 187-211): builds the baton and queues the work.
Resize(t) ==
    /\ pc[t] = "idle"
    /\ Called(t)
    /\ \A u \in 1..(t - 1) : pc[u] # "idle"
    /\ \E c \in CanvasChoices(args[t].canvas) :
          baton' = [baton EXCEPT ![t] =
                      [src |-> args[t].src, dst |-> args[t].dst,
                       cols |-> args[t].cols, rows |-> args[t].rows,
                       crop |-> c.crop, embed |-> c.embed,
                       err |-> <<>>, buffer_out_len |-> 0]]
    /\ pc' = [pc EXCEPT ![t] = "queued"]
    /\ UNCHANGED <<args, loc, live, errbuf, cb, nulls>>

\* ResizeAsync, lines 49-59: the new image, then the loader by suffix.
Load(t) ==
    /\ pc[t] = "queued"
    /\ IF IsJpegName(baton[t].src) \/ IsPngName(baton[t].src)
       THEN /\ pc' = [pc EXCEPT ![t] = "checkin"]
            /\ baton' = baton
            /\ \/ /\ Passes(t, "load")
                  /\ loc' = [loc EXCEPT ![t].in = "decoded", ![t].valid = TRUE,
                                        ![t].X = args[t].file.w,
                                        ![t].Y = args[t].file.h,
                                        ![t].ran = Append(@, "load")]
                  /\ live' = [live EXCEPT ![t] = @ \cup {"blank", "decoded"}]
                  /\ errbuf' = errbuf
               \/ /\ Faulty(t, "load")
                  /\ loc' = [loc EXCEPT ![t].in = IF nulls THEN "null" ELSE "blank",
                                        ![t].X = 1, ![t].Y = 1,
                                        ![t].ran = Append(@, "load"),
                                        ![t].failed = Append(@, "load")]
                  /\ live' = [live EXCEPT ![t] = @ \cup {"blank"}]
                  /\ errbuf' = Append(errbuf, Diag(t, "load"))
       ELSE /\ baton' = [baton EXCEPT ![t].err = Append(@, Diag(t, UnsupportedInput))]
            /\ pc' = [pc EXCEPT ![t] = "worked"]
            /\ live' = [live EXCEPT ![t] = @ \cup {"blank"}]
            /\ UNCHANGED <<loc, errbuf>>
    /\ UNCHANGED <<args, cb, nulls>>

\* A vips call of task t fails: its diagnostic goes to the error buffer and
\* the task goes on to read it (the branch taken on a non-zero result).
VipsFails(t, stage) ==
    /\ errbuf' = Append(errbuf, Diag(t, stage))
    /\ pc' = [pc EXCEPT ![t] = "readerr"]

\* Lines 60-75: the NULL test, the freer, the four local images.
CheckIn(t) ==
    /\ pc[t] = "checkin"
    /\ \/ /\ loc[t].in = "null"
          /\ pc' = [pc EXCEPT ![t] = "readerr"]
          /\ UNCHANGED <<loc, live, errbuf>>
       \/ /\ loc[t].in # "null"
          /\ Passes(t, "local")
          /\ loc' = [loc EXCEPT ![t].freer = TRUE, ![t].ran = Append(@, "local")]
          /\ live' = [live EXCEPT ![t] = @ \cup {"temps"}]
          /\ pc' = [pc EXCEPT ![t] = "shrink"]
          /\ errbuf' = errbuf
       \/ /\ loc[t].in # "null"
          /\ Faulty(t, "local")
          /\ loc' = [loc EXCEPT ![t].freer = TRUE, ![t].ran = Append(@, "local"),
                                ![t].failed = Append(@, "local")]
          /\ live' = live
          /\ VipsFails(t, "local")
    /\ UNCHANGED <<args, baton, cb, nulls>>

\* Lines 77-89: the plan, then im_shrink by the integral part.
Shrink(t) ==
    /\ pc[t] = "shrink"
    /\ LET p == Plan(loc[t].X, loc[t].Y, baton[t].cols, baton[t].rows, baton[t].crop)
           sx == ShrinkSize(loc[t].X, p.shrink)
           sy == ShrinkSize(loc[t].Y, p.shrink)
       IN  \/ /\ sx > 0 /\ sy > 0 /\ Passes(t, "shrink") /\ ~Doomed(t)
              /\ loc' = [loc EXCEPT ![t].plan = p, ![t].shr = <<sx, sy>>,
                                    ![t].X = sx, ![t].Y = sy,
                                    ![t].ran = Append(@, "shrink")]
              /\ pc' = [pc EXCEPT ![t] = "affine"]
              /\ errbuf' = errbuf
           \/ /\ sx <= 0 \/ sy <= 0 \/ Faulty(t, "shrink") \/ Doomed(t)
              /\ loc' = [loc EXCEPT ![t].plan = p, ![t].shr = <<sx, sy>>,
                                    ![t].ran = Append(@, "shrink"),
                                    ![t].failed = Append(@, "shrink")]
              /\ VipsFails(t, "shrink")
    /\ UNCHANGED <<args, baton, live, cb, nulls>>

\* Lines 91-97: im_affinei_all by the residual, bilinear.
Affine(t) ==
    /\ pc[t] = "affine"
    /\ \/ \E nx \in AffineSizes(loc[t].X, loc[t].plan.residual),
             ny \in AffineSizes(loc[t].Y, loc[t].plan.residual) :
             /\ nx > 0 /\ ny > 0 /\ Passes(t, "affine")
             /\ loc' = [loc EXCEPT ![t].res = <<nx, ny>>, ![t].X = nx, ![t].Y = ny,
                                   ![t].ran = Append(@, "affine")]
             /\ pc' = [pc EXCEPT ![t] = "place"]
             /\ errbuf' = errbuf
       \/ /\ \/ Faulty(t, "affine")
             \/ \E nx \in AffineSizes(loc[t].X, loc[t].plan.residual),
                   ny \in AffineSizes(loc[t].Y, loc[t].plan.residual) :
                   nx <= 0 \/ ny <= 0
          /\ loc' = [loc EXCEPT ![t].ran = Append(@, "affine"),
                                ![t].failed = Append(@, "affine")]
          /\ VipsFails(t, "affine")
    /\ UNCHANGED <<args, baton, live, cb, nulls>>

\* Lines 99-119: im_extract_area under crop, im_embed otherwise.
Place(t) ==
    /\ pc[t] = "place"
    /\ LET a == IF baton[t].crop
                THEN CropArea(loc[t].X, loc[t].Y, baton[t].cols, baton[t].rows)
                ELSE EmbedArea(loc[t].X, loc[t].Y, baton[t].cols, baton[t].rows)
       IN  \/ /\ AreaAccepted(a, loc[t].X, loc[t].Y, baton[t].embed)
              /\ Passes(t, "place")
              /\ loc' = [loc EXCEPT ![t].area = a, ![t].out = <<a.width, a.height>>,
                                    ![t].X = a.width, ![t].Y = a.height,
                                    ![t].ran = Append(@, "place")]
              /\ pc' = [pc EXCEPT ![t] = "sharpen"]
              /\ errbuf' = errbuf
           \/ /\ \/ ~AreaAccepted(a, loc[t].X, loc[t].Y, baton[t].embed)
                 \/ Faulty(t, "place")
              /\ loc' = [loc EXCEPT ![t].area = a, ![t].ran = Append(@, "place"),
                                    ![t].failed = Append(@, "place")]
              /\ VipsFails(t, "place")
    /\ UNCHANGED <<args, baton, live, cb, nulls>>

\* Lines 121-132: the 3x3 mask and im_conv.
Sharpen(t) ==
    /\ pc[t] = "sharpen"
    /\ live' = [live EXCEPT ![t] = @ \cup {"mask"}]
    /\ \/ /\ Passes(t, "sharpen")
          /\ loc' = [loc EXCEPT ![t].ran = Append(@, "sharpen")]
          /\ pc' = [pc EXCEPT ![t] = "encode"]
          /\ errbuf' = errbuf
       \/ /\ Faulty(t, "sharpen")
          /\ loc' = [loc EXCEPT ![t].ran = Append(@, "sharpen"),
                                ![t].failed = Append(@, "sharpen")]
          /\ VipsFails(t, "sharpen")
    /\ UNCHANGED <<args, baton, cb, nulls>>

\* Lines 134-162: the encoder by destination.
Encode(t) ==
    /\ pc[t] = "encode"
    /\ IF baton[t].dst = SentinelJpeg \/ baton[t].dst = SentinelPng
       THEN \/ /\ Passes(t, "encode")
               /\ baton' = [baton EXCEPT ![t].buffer_out_len = loc[t].X * loc[t].Y]
               /\ live' = [live EXCEPT ![t] = Released(t) \cup {"buffer_out"}]
               /\ loc' = [loc EXCEPT ![t].ran = Append(@, "encode")]
               /\ pc' = [pc EXCEPT ![t] = "worked"]
               /\ errbuf' = errbuf
            \/ /\ Faulty(t, "encode")
               /\ loc' = [loc EXCEPT ![t].ran = Append(@, "encode"),
                                     ![t].failed = Append(@, "encode")]
               /\ VipsFails(t, "encode")
               /\ UNCHANGED <<baton, live>>
       ELSE IF IsJpegName(baton[t].dst) \/ IsPngName(baton[t].dst)
       THEN \/ /\ Passes(t, "encode")
               /\ loc' = [loc EXCEPT ![t].ran = Append(@, "encode"),
                                     ![t].wrote = TRUE]
               /\ live' = [live EXCEPT ![t] = Released(t)]
               /\ pc' = [pc EXCEPT ![t] = "worked"]
               /\ UNCHANGED <<baton, errbuf>>
            \/ /\ Faulty(t, "encode")
               /\ loc' = [loc EXCEPT ![t].ran = Append(@, "encode"),
                                     ![t].failed = Append(@, "encode")]
               /\ VipsFails(t, "encode")
               /\ UNCHANGED <<baton, live>>
       ELSE /\ baton' = [baton EXCEPT ![t].err = Append(@, Diag(t, UnsupportedOutput))]
            /\ live' = [live EXCEPT ![t] = Released(t)]
            /\ pc' = [pc EXCEPT ![t] = "worked"]
            /\ UNCHANGED <<loc, errbuf>>
    /\ UNCHANGED <<args, cb, nulls>>

\* (baton->err).append(vips_error_buffer())
ReadErr(t) ==
    /\ pc[t] = "readerr"
    /\ baton' = [baton EXCEPT ![t].err = @ \o errbuf]
    /\ pc' = [pc EXCEPT ![t] = "clearerr"]
    /\ UNCHANGED <<args, loc, live, errbuf, cb, nulls>>

\* vips_error_clear(), then the return (or the end of the function).
ClearErr(t) ==
    /\ pc[t] = "clearerr"
    /\ errbuf' = <<>>
    /\ live' = [live EXCEPT ![t] = Released(t)]
    /\ pc' = [pc EXCEPT ![t] = "worked"]
    /\ UNCHANGED <<args, baton, loc, cb, nulls>>

ResizeAsyncAfterSilentOnError(t) ==
    /\ pc[t] = "worked"
    /\ cb' = [cb EXCEPT ![t] =
                IF baton[t].err # <<>> THEN @
                ELSE [calls |-> @.calls + 1, err |-> <<>>,
                      buf |-> baton[t].buffer_out_len]]
    /\ pc' = [pc EXCEPT ![t] = "done"]
    /\ UNCHANGED <<args, baton, loc, live, errbuf, nulls>>

\* ResizeAsyncAfter (lines 165-185): the one call of the callback.
ResizeAsyncAfter(t) ==
    /\ pc[t] = "worked"
    /\ cb' = [cb EXCEPT ![t] =
                [calls |-> @.calls + 1,
                 err |-> baton[t].err,
                 buf |-> IF baton[t].err # <<>> THEN 0 ELSE baton[t].buffer_out_len]]
    /\ pc' = [pc EXCEPT ![t] = "done"]
    /\ UNCHANGED <<args, baton, loc, live, errbuf, nulls>>

\* ResizeAsync, one step of it.
ResizeAsync(t) ==
    \/ Load(t)
    \/ CheckIn(t)
    \/ Shrink(t)
    \/ Affine(t)
    \/ Place(t)
    \/ Sharpen(t)
    \/ Encode(t)
    \/ ReadErr(t)
    \/ ClearErr(t)

Next ==
    \E t \in TaskIds :
       \/ Resize(t)
       \/ Load(t)
       \/ CheckIn(t)
       \/ Shrink(t)
       \/ Affine(t)
       \/ Place(t)
       \/ Sharpen(t)
       \/ Encode(t)
       \/ ReadErr(t)
       \/ ClearErr(t)
       \/ ResizeAsyncAfter(t)

\* ------------------------------------------------------ initial states
NameJpg == <<"a">> \o DotJpg
NamePng == <<"c">> \o DotPng
NameGif == <<"d">> \o DotGif
NameBmp == <<"o">> \o DotBmp

ImageFile(w, h, fault) == [w |-> w, h |-> h, fault |-> fault]

Call(src, dst, cols, rows, canvas, file) ==
    [src |-> src, dst |-> dst, cols |-> cols, rows |-> rows, canvas |-> canvas,
     file |-> file]

Started(a, n) ==
    /\ args = a
    /\ nulls = n
    /\ pc = [t \in TaskIds |-> "idle"]
    /\ baton = [t \in TaskIds |-> NoBaton]
    /\ loc = [t \in TaskIds |-> NoLoc]
    /\ live = [t \in TaskIds |-> {}]
    /\ errbuf = <<>>
    /\ cb = [t \in TaskIds |-> NoCall]

\* Concurrent calls, one of each kind: to a buffer, to a file, with a source
\* or a destination of no supported type, with a file that does not decode,
\* with an image one of the stages fails on.
Sound == ImageFile(MaxTarget, MaxTarget, "none")

CallArgs ==
    {Call(NameJpg, SentinelJpeg, 1, 1, "c", Sound),
     Call(NamePng, NamePng, 1, 1, "w", Sound),
     Call(NameJpg, NameBmp, 1, 1, "b", Sound),
     Call(NameGif, NameBmp, 1, 1, "c", Sound),
     Call(NameJpg, SentinelPng, 1, 1, "c", ImageFile(0, 0, "load")),
     Call(NameJpg, SentinelJpeg, 1, 1, "c", ImageFile(MaxTarget, MaxTarget, "encode"))}

Init == \E a \in [TaskIds -> CallArgs], n \in BOOLEAN : Started(a, n)

Spec == Init /\ [][Next]_vars

\* uv_queue_work: while a work item is queued or running, or its after-work
\* callback is pending, the pool threads and the loop do not stop for good.
\* (That each item is served is more than is assumed here.)
Progress == \E t \in TaskIds : ResizeAsync(t) \/ ResizeAsyncAfter(t)

\* The calls of the fair behaviours: one that succeeds, one refused for its
\* source type, one whose file does not decode.
FairCallArgs ==
    {Call(NameJpg, SentinelJpeg, 1, 1, "c", Sound),
     Call(NameGif, NameBmp, 1, 1, "c", Sound),
     Call(NameJpg, SentinelPng, 1, 1, "c", ImageFile(0, 0, "load"))}

FairInit == \E a \in [TaskIds -> FairCallArgs], n \in BOOLEAN : Started(a, n)

FairSpec == FairInit /\ [][Next]_vars /\ WF_vars(Progress)

\* One call, every source size, target size, canvas and failing stage.
GeoArgs ==
    {Call(NameJpg, SentinelJpeg, cols, rows, canvas, ImageFile(w, h, "none")) :
        cols \in (-MaxNeg)..MaxTarget, rows \in (-MaxNeg)..MaxTarget,
        canvas \in {"c", "w", "b", "x"}, w \in 1..MaxSrc, h \in 1..MaxSrc}

GeoInit ==
    \E g \in GeoArgs : Started([t \in TaskIds |-> IF t = 1 THEN g ELSE NoArgs], FALSE)

GeoSpec == GeoInit /\ [][Next]_vars

\* ------------------------------------------------------------- claims
Done(t) == pc[t] = "done"
Ran(t, stage) == \E i \in 1..Len(loc[t].ran) : loc[t].ran[i] = stage
Failed(t, stage) == \E i \in 1..Len(loc[t].failed) : loc[t].failed[i] = stage
HasMsg(err, m) == \E i \in 1..Len(err) : err[i].msg = m

\* A suffix, stated without EndsWith: some tail of the name is the suffix.
HasSuffix(name, suffix) ==
    \E k \in 0..Len(name) : SubSeq(name, k + 1, Len(name)) = suffix
ImageSuffix(name) ==
    HasSuffix(name, DotJpg) \/ HasSuffix(name, DotJpeg) \/ HasSuffix(name, DotPng)
BufferDst(name) == name = SentinelJpeg \/ name = SentinelPng

\* The task states of the Task Runner.
Phase(t) ==
    CASE pc[t] = "idle" -> "NotSubmitted"
      [] pc[t] = "queued" -> "Submitted"
      [] pc[t] = "done" -> IF baton[t].err = <<>> THEN "Completed" ELSE "Failed"
      [] OTHER -> "Running"

Lifecycle(t) ==
    \/ Phase(t)' = Phase(t)
    \/ Phase(t) = "NotSubmitted" /\ Phase(t)' = "Submitted"
    \/ Phase(t) = "Submitted" /\ Phase(t)' = "Running"
    \/ Phase(t) = "Running" /\ Phase(t)' \in {"Completed", "Failed"}

\* C1: every submitted request's callback is eventually called, and never
\* more than once: it has been called exactly once when the task is in its
\* terminal state and not at all before; a task moves Submitted -> Running ->
\* Completed/Failed and stays there; from some point on every request that
\* was submitted is in its terminal state.
C1_CallbackExactlyOnce ==
    /\ [](\A t \in TaskIds : cb[t].calls = IF Done(t) THEN 1 ELSE 0)
    /\ [][\A t \in TaskIds : Lifecycle(t)]_vars
    /\ <>[](\A t \in TaskIds : pc[t] # "idle" => Done(t))

\* C1's case: every call has completed, one with an error and one without.
C1_Witness ==
    /\ \A t \in TaskIds : Done(t) /\ cb[t].calls = 1
    /\ \E t \in TaskIds : cb[t].err = <<>>
    /\ \E t \in TaskIds : cb[t].err # <<>>

\* C2: a completed request's callback got (non-empty error, no buffer) or
\* (null error, buffer), the buffer present and non-empty exactly when the
\* destination is "__jpeg" or "__png".
C2_CallbackShape ==
    \A t \in TaskIds :
       Done(t) =>
          \/ cb[t].err # <<>> /\ cb[t].buf = 0
          \/ /\ cb[t].err = <<>>
             /\ cb[t].buf > 0 <=> BufferDst(args[t].dst)

\* The pipeline stages of C3, in order, as they were run by task t.
PipelineStages == {"load", "shrink", "affine", "place", "sharpen", "encode"}
StagesRun(t) == SelectSeq(loc[t].ran, LAMBDA x : x \in PipelineStages)

\* C3: when a stage of a task fails, that stage is the last one the task
\* runs, no buffer or file is produced, and the callback gets a non-empty
\* error; a failed decode is noticed before the shrink starts.
C3_FailureAborts ==
    \A t \in TaskIds :
       loc[t].failed # <<>> =>
          /\ StagesRun(t)[Len(StagesRun(t))] = loc[t].failed[1]
          /\ Failed(t, "load") => ~Ran(t, "shrink")
          /\ baton[t].buffer_out_len = 0 /\ ~loc[t].wrote
          /\ Done(t) => cb[t].err # <<>> /\ cb[t].buf = 0

\* Every stage before the encoder ran and none failed.
ReachedEncoder(t) == Ran(t, "sharpen") /\ loc[t].failed = <<>>

\* C4, first half (as claimed): a source with no .jpg/.jpeg/.png suffix
\* completes with an error containing "Unsupported input file type" and no
\* buffer.
C4_UnsupportedInput ==
    \A t \in TaskIds :
       (Done(t) /\ ~ImageSuffix(args[t].src)) =>
          HasMsg(cb[t].err, UnsupportedInput) /\ cb[t].buf = 0

\* C4 (amended): the first half as claimed; a destination that is neither a
\* sentinel nor a .jpg/.jpeg/.png path completes with an error containing
\* "Unsupported output file type" and no buffer when the task reached the
\* encoder, that is when the source was loaded and no earlier stage failed.
C4_UnsupportedTypes ==
    /\ C4_UnsupportedInput
    /\ \A t \in TaskIds :
          (/\ Done(t)
           /\ ~BufferDst(args[t].dst) /\ ~ImageSuffix(args[t].dst)
           /\ ReachedEncoder(t)) =>
             HasMsg(cb[t].err, UnsupportedOutput) /\ cb[t].buf = 0

\* C4's cases: one call with an unsupported source and one that reached the
\* encoder with an unsupported destination have both completed.
C4_Witness ==
    /\ \E t \in TaskIds :
          Done(t) /\ ~ImageSuffix(args[t].src) /\ HasMsg(cb[t].err, UnsupportedInput)
    /\ \E t \in TaskIds :
          /\ Done(t) /\ ReachedEncoder(t)
          /\ ~BufferDst(args[t].dst) /\ ~ImageSuffix(args[t].dst)
          /\ HasMsg(cb[t].err, UnsupportedOutput)

\* C4 (as claimed): every request with an unsupported destination completes
\* with an error containing "Unsupported output file type".
C4_Original ==
    /\ C4_UnsupportedInput
    /\ \A t \in TaskIds :
          (Done(t) /\ ~BufferDst(args[t].dst) /\ ~ImageSuffix(args[t].dst)) =>
             HasMsg(cb[t].err, UnsupportedOutput) /\ cb[t].buf = 0

\* C7: the error delivered to a request's callback is made of the
\* diagnostics of its own failed calls and of nothing else: none of another
\* task's appears in it and none of its own is missing.
C7_Isolation ==
    \A t \in TaskIds :
       Done(t) =>
          /\ \A i \in 1..Len(cb[t].err) : cb[t].err[i].by = t
          /\ \A i \in 1..Len(loc[t].failed) :
                \E j \in 1..Len(cb[t].err) : cb[t].err[j] = Diag(t, loc[t].failed[i])

\* C8: when ResizeAsync has returned, nothing it allocated is still held.
C8_NothingOutlivesTask ==
    \A t \in TaskIds : pc[t] \in {"worked", "done"} => live[t] = {}

\* The one call of the single-call behaviours.
Policy(t, canvases) == args[t].canvas \in canvases
TargetsPositive(t) == args[t].cols >= 1 /\ args[t].rows >= 1
Succeeded(t, stage) == Ran(t, stage) /\ ~Failed(t, stage)

\* C5: under Crop, with the source at least the target in both dimensions,
\* the image after shrink, affine and extract is targetWidth x targetHeight.
C5_CropExact ==
    \A t \in TaskIds :
       (/\ Policy(t, {"c"}) /\ TargetsPositive(t)
        /\ args[t].file.w >= args[t].cols /\ args[t].file.h >= args[t].rows
        /\ Ran(t, "place")) =>
          /\ Succeeded(t, "place")
          /\ loc[t].out = <<args[t].cols, args[t].rows>>

\* C6: under Embed ("w" or "b") with targets >= 1, the image after shrink
\* and affine is no wider and no higher than the target, so left and top
\* are >= 0, and the canvas of the embed is targetWidth x targetHeight.
C6_EmbedWithin ==
    \A t \in TaskIds :
       (Policy(t, {"w", "b"}) /\ TargetsPositive(t)) =>
          /\ Succeeded(t, "affine") =>
                loc[t].res[1] <= args[t].cols /\ loc[t].res[2] <= args[t].rows
          /\ Ran(t, "place") =>
                /\ Succeeded(t, "place")
                /\ loc[t].area.left >= 0 /\ loc[t].area.top >= 0
                /\ loc[t].area.left + loc[t].res[1] <= args[t].cols
                /\ loc[t].area.top + loc[t].res[2] <= args[t].rows
                /\ loc[t].out = <<args[t].cols, args[t].rows>>

\* C6's case: an embed of a shrunk and resampled image that leaves a border.
C6_Witness ==
    \E t \in TaskIds :
       /\ Policy(t, {"w", "b"}) /\ TargetsPositive(t)
       /\ Succeeded(t, "place")
       /\ loc[t].plan.shrink > 1 /\ loc[t].plan.residual[1] < loc[t].plan.residual[2]
       /\ loc[t].area.top > 0
       /\ loc[t].res[1] = args[t].cols

\* C9: a target <= 0 is treated as 1 in the crop rectangle and in the embed
\* canvas too, so the width and height handed to the crop/embed stage are > 0.
C9_PlacementPositive ==
    \A t \in TaskIds :
       Ran(t, "place") =>
          /\ loc[t].area.width =
                IF baton[t].crop THEN Min(loc[t].res[1], Max(args[t].cols, 1))
                ELSE Max(args[t].cols, 1)
          /\ loc[t].area.height =
                IF baton[t].crop THEN Min(loc[t].res[2], Max(args[t].rows, 1))
                ELSE Max(args[t].rows, 1)
          /\ loc[t].area.width > 0 /\ loc[t].area.height > 0

\* The plan of task t, once computed: factor >= 1, shrink = floor(factor)
\* >= 1, residual = shrink / factor, 0 < residual <= 1.
PlanSound(t) ==
    LET f == loc[t].plan.factor
        sh == loc[t].plan.shrink
        r == loc[t].plan.residual
    IN  /\ f[2] > 0 /\ f[1] >= f[2]
        /\ sh >= 1
        /\ sh * f[2] <= f[1] /\ f[1] < (sh + 1) * f[2]
        /\ r[2] > 0 /\ r[1] * f[1] = sh * f[2] * r[2]
        /\ 0 < r[1] /\ r[1] <= r[2]

====
